---- MODULE Spec2Model ----
(***************************************************************************)
(* Model of the image-write pipeline of schrijver (Linux build):            *)
(*   main.rs    write_iso_to_usb                                            *)
(*   device.rs  validate_device_for_writing, is_device_mounted              *)
(*   writer.rs  write_iso_to_device, get_device_size,                       *)
(*              UsbWriter::write_iso_with_progress_sync,                    *)
(*              UsbWriter::copy_with_progress, UsbWriter::verify_write_sync *)
(*                                                                         *)
(* Scaling.  Bytes are drawn from a two-element alphabet, lengths are       *)
(* bounded by MaxLen / MaxDev, and the 64 KiB verification buffer is        *)
(* VerifyBufSize bytes.  Time is counted in whole milliseconds, as          *)
(* Duration::as_millis does.  progress_percent is kept in hundredths of a   *)
(* percent, computed exactly (f32 rounding is not modelled).                *)
(*                                                                         *)
(* Environment.  The target is a block device of fixed capacity             *)
(* Len(device): a write past its end stores what fits and then fails.       *)
(* A read may return fewer bytes than the buffer holds (std::io::Read), a   *)
(* read, write, open or flush may fail, and the device may be unplugged     *)
(* while no handle to it is open.  The source file does not change.         *)
(***************************************************************************)
EXTENDS Integers, Sequences, FiniteSets, TLC

\* ---------------------------------------------------------------- bounds
MaxLen == 3          \* longest source image, in bytes
MaxDev == 3          \* largest target capacity, in bytes
MaxBuf == 2          \* largest copy buffer size, in bytes
VerifyBufSize == 2   \* verification buffer (64 KiB in the source), in bytes

\* ------------------------------------------------------- program constants
THROTTLE_MS == 100     \* writer.rs:157, progress window in milliseconds
FULL_PERCENT == 10000  \* writer.rs:191, 100.0 in hundredths of a percent

Bytes == {0, 1}
ChunkDelays == {0, 100, 101}    \* milliseconds one loop iteration may take
Runs == {1, 2}                  \* invocations of verify_write_sync

\* paths are sequences of characters: <<1>> is /dev/sdb, <<1,1>> is
\* /dev/sdb1, <<2>> is /dev/sdc
device_path == <<1>>
MountSources == {<<1>>, <<1, 1>>, <<2>>}

Min(a, b) == IF a < b THEN a ELSE b

SeqsUpTo(n) == UNION {[1..k -> Bytes] : k \in 0..n}

VARIABLES
    source,        \* content of the ISO file
    src_exists,    \* the ISO path exists
    device,        \* content of the target block device
    dev_exists,    \* the device path exists
    mounts,        \* first fields of the lines of /proc/mounts
    buffer_size,   \* UsbWriter.buffer_size
    pc,            \* position of the session (write_iso_to_usb)
    outcome,       \* result carried by Message::WriteCompleted
    cap,           \* get_device_size: <<"unprobed">>, <<"Err">>, <<"Ok", bytes>>
    total_size,    \* iso_size passed to copy_with_progress
    rpos,          \* read offset of the source handle of the writer
    bytes_written, \* copy_with_progress::bytes_written
    written,       \* bytes the device accepted from the writer, from offset 0
    now,           \* Instant::now() - start_time, in ms
    last_progress_time,
    samples,       \* WriteProgress values handed to progress_callback
    copy_result,   \* result of copy_with_progress: "none", "ok", "err"
    target_ops,    \* kinds of interaction the session had with the target
    vpc,           \* per run of verify_write_sync: "idle", "open", "loop", "done"
    vpos,          \* per run: bytes_verified (offset of both handles)
    vres,          \* per run: "none", "true", "false", "io_error"
    cancel_request,\* <<>>, or <<loop, progress>> of a cancellation request
    app,           \* the fields of SchrijverApplication
    msgs,          \* Messages waiting for SchrijverApplication::update
    view,          \* what the last view() rendered, and whether it is current
    commands       \* the futures the executor is running (Command::perform)

vars == <<source, src_exists, device, dev_exists, mounts, buffer_size, pc,
          outcome, cap, total_size, rpos, bytes_written, written, now,
          last_progress_time, samples, copy_result, target_ops,
          vpc, vpos, vres, cancel_request, app, msgs, view, commands>>

app_vars == <<app, msgs, view, commands>>
env_vars == <<source, src_exists, mounts, buffer_size, cancel_request,
              app_vars>>
copy_vars == <<total_size, rpos, bytes_written, written, now,
               last_progress_time, samples, copy_result>>
verify_vars == <<vpc, vpos, vres>>

\* ------------------------------------------------------------ pure helpers

\* str::starts_with
StartsWith(s, prefix) ==
    /\ Len(prefix) <= Len(s)
    /\ SubSeq(s, 1, Len(prefix)) = prefix

\* mutant: only an entry equal to the device path counts
is_device_mounted_exact(path, table) == path \in table

\* device.rs is_device_mounted: some line of /proc/mounts has a first field
\* that starts with the device path
is_device_mounted(path, table) ==
    \E m \in table : StartsWith(m, path)

\* mutant: the comparison reversed
ExceedsCapacity_reversed(iso_size, device_size) == iso_size < device_size

\* writer.rs:290, the capacity comparison
ExceedsCapacity(iso_size, device_size) == iso_size > device_size

\* mutant: the whole buffer is written, not only the bytes just read
ChunkRead_whole_buffer(src, pos, n) ==
    SubSeq(src, pos + 1, pos + n) \o [i \in 1..(buffer_size - n) |-> 0]

\* writer.rs:147, &buffer[..bytes_read] after a read of n bytes at offset pos
ChunkRead(src, pos, n) == SubSeq(src, pos + 1, pos + n)

\* mutant: the counter advances by the buffer size
Accumulate_buffer_size(bw, bytes_read) == bw + buffer_size

\* writer.rs:153
Accumulate(bw, bytes_read) == bw + bytes_read

\* mutant: the time since the start is compared, not since the last sample
ThrottleElapsed_since_start(t, last) == t > THROTTLE_MS

\* writer.rs:157
ThrottleElapsed(t, last) == t - last > THROTTLE_MS

\* writer.rs:168, (bytes_written / total_size) * 100.0; a division by zero
\* gives +inf, which is kept as -1
Percent(bw, total) ==
    IF total = 0 THEN -1 ELSE (bw * FULL_PERCENT) \div total

\* writer.rs:158-170; speed_mbps is kept as the elapsed time (line 158) it
\* is computed from
ThrottledSample(bw, total, t) ==
    [bytes_written |-> bw, total_bytes |-> total,
     progress_percent |-> Percent(bw, total), elapsed_ms |-> t]

\* writer.rs:181-193
FinalSample(bw, total, t) ==
    [bytes_written |-> bw, total_bytes |-> total,
     progress_percent |-> FULL_PERCENT, elapsed_ms |-> t]

\* mutant: the destination is cut at the end of what was stored, as a file
\* opened with truncate(true) is: the bytes behind it read as zeros
Store_truncating(dev, pos, data) ==
    [i \in 1..Len(dev) |->
        IF i > pos /\ i <= pos + Len(data) THEN data[i - pos]
        ELSE IF i > pos + Len(data) THEN 0 ELSE dev[i]]

\* the device after data was stored at offset pos (no growth: block device)
Store(dev, pos, data) ==
    [i \in 1..Len(dev) |->
        IF i > pos /\ i <= pos + Len(data) THEN data[i - pos] ELSE dev[i]]

\* mutant: only the first byte of each chunk is compared
SlicesDiffer_first_byte(a, b) == a[1] # b[1]

\* writer.rs:245, iso_buffer[..iso_bytes] != device_buffer[..device_bytes]
SlicesDiffer(a, b) == a # b

\* mutant: a mismatch is reported as an I/O failure
VerifyOutcome_io(res) ==
    CASE res = "true" -> "Ok"
      [] OTHER -> "IoError"

\* writer.rs:307-311, the session result after verify_write returned
VerifyOutcome(res) ==
    CASE res = "true" -> "Ok"
      [] res = "false" -> "VerificationFailed"
      [] OTHER -> "IoError"

\* ---------------------------------------------------------------- initial

\* main.rs Default for SchrijverApplication; None is "none" for the ISO path
\* and the empty path for the device; write_progress in hundredths of a
\* percent of the bar (1.0 is FULL_PERCENT); status_message, a text that is
\* only displayed, is left out
DefaultApplication ==
    [iso_path |-> "none",
     selected_device |-> <<>>,
     available_devices |-> {},
     write_progress |-> 0,
     is_writing |-> FALSE]

\* main.rs can_write
can_write(a) ==
    a.iso_path # "none" /\ a.selected_device # <<>> /\ ~a.is_writing

\* main.rs view: the widgets that produce messages
Render(a) ==
    [can_write |-> can_write(a),
     devices |-> a.available_devices,
     current |-> TRUE]

\* a future handed to the executor
Future(kind, iso, dev) == [kind |-> kind, iso |-> iso, dev |-> dev]

\* main.rs new: the default state, its view, and the first device scan
InitApplication ==
    /\ app = DefaultApplication
    /\ msgs = <<>>
    /\ view = Render(DefaultApplication)
    /\ commands = <<Future("detect_usb_devices", "none", <<>>)>>

Init ==
    /\ source \in SeqsUpTo(MaxLen)
    /\ src_exists \in BOOLEAN
    /\ \E d \in 0..MaxDev, fill \in Bytes : device = [i \in 1..d |-> fill]
    /\ dev_exists \in BOOLEAN
    /\ mounts \in SUBSET MountSources
    /\ buffer_size \in 1..MaxBuf
    /\ pc = "start"
    /\ outcome = "none"
    /\ cap = <<"unprobed">>
    /\ total_size = 0
    /\ rpos = 0
    /\ bytes_written = 0
    /\ written = <<>>
    /\ now = 0
    /\ last_progress_time = 0
    /\ samples = <<>>
    /\ copy_result = "none"
    /\ target_ops = {}
    /\ vpc = [r \in Runs |-> "idle"]
    /\ vpos = [r \in Runs |-> 0]
    /\ vres = [r \in Runs |-> "none"]
    /\ cancel_request = <<>>
    /\ InitApplication

\* mutant: the result is recorded but the function does not return
Finish_no_return(e) ==
    /\ pc' = pc
    /\ outcome' = e

\* the session ends with result e
Finish(e) ==
    /\ pc' = "done"
    /\ outcome' = e

\* mutant: the mount table is looked at before the existence of the path
validate_device_for_writing_mount_first ==
    /\ pc = "start"
    /\ IF is_device_mounted(device_path, mounts)
       THEN /\ Finish("DeviceMounted")
            /\ target_ops' = target_ops \cup {"mounts"}
       ELSE IF ~dev_exists
       THEN /\ Finish("DeviceNotFound")
            /\ target_ops' = target_ops \cup {"exists", "mounts"}
       ELSE /\ pc' = "iso_exists"
            /\ outcome' = outcome
            /\ target_ops' = target_ops \cup {"exists", "mounts"}
    /\ UNCHANGED <<env_vars, device, dev_exists, cap, copy_vars, verify_vars>>

\* ------------------------------------------------- device.rs:143-159
validate_device_for_writing ==
    /\ pc = "start"
    /\ IF ~dev_exists
       THEN /\ Finish("DeviceNotFound")
            /\ target_ops' = target_ops \cup {"exists"}
       ELSE IF is_device_mounted(device_path, mounts)
       THEN /\ Finish("DeviceMounted")
            /\ target_ops' = target_ops \cup {"exists", "mounts"}
       ELSE /\ pc' = "iso_exists"
            /\ outcome' = outcome
            /\ target_ops' = target_ops \cup {"exists", "mounts"}
    /\ UNCHANGED <<env_vars, device, dev_exists, cap, copy_vars, verify_vars>>

\* ------------------------------------------------- writer.rs:266-276
check_iso_exists ==
    /\ pc = "iso_exists"
    /\ IF ~src_exists
       THEN Finish("IsoNotFound")
       ELSE /\ pc' = "dev_exists"
            /\ outcome' = outcome
    /\ UNCHANGED <<env_vars, device, dev_exists, cap, copy_vars, target_ops,
                   verify_vars>>

\* ------------------------------------------------- writer.rs:278-281
check_device_exists ==
    /\ pc = "dev_exists"
    /\ IF ~dev_exists
       THEN Finish("DeviceNotFound")
       ELSE /\ pc' = "size_check"
            /\ outcome' = outcome
    /\ target_ops' = target_ops \cup {"exists"}
    /\ UNCHANGED <<env_vars, device, dev_exists, cap, copy_vars, verify_vars>>

\* ------------------------------------------------- writer.rs:316-336
\* get_device_size: File::open, then ioctl(BLKGETSIZE64).  probe is what the
\* platform answers: "open_failed", "ioctl_failed" or "ok".
get_device_size(probe, dev) ==
    IF probe = "ok" THEN <<"Ok", Len(dev)>> ELSE <<"Err">>

ProbeResults == {"open_failed", "ioctl_failed", "ok"}

\* mutant: a capacity that could not be probed counts as too small
check_device_size_unknown_rejects ==
    /\ pc = "size_check"
    /\ \/ \* std::fs::metadata(iso_path) fails
          /\ Finish("IoError")
          /\ UNCHANGED <<cap, target_ops>>
       \/ \E probe \in ProbeResults :
          /\ probe # "open_failed" => dev_exists
          /\ cap' = get_device_size(probe, device)
          /\ target_ops' = target_ops \cup {"probe"} \cup
                (IF probe = "open_failed" THEN {} ELSE {"open_r"})
          /\ IF cap'[1] = "Err" \/ ExceedsCapacity(Len(source), cap'[2])
             THEN Finish("InsufficientSpace")
             ELSE /\ pc' = "open"
                  /\ outcome' = outcome
    /\ UNCHANGED <<env_vars, device, dev_exists, copy_vars, verify_vars>>

\* ------------------------------------------------- writer.rs:283-294
check_device_size ==
    /\ pc = "size_check"
    /\ \/ \* std::fs::metadata(iso_path) fails
          /\ Finish("IoError")
          /\ UNCHANGED <<cap, target_ops>>
       \/ \E probe \in ProbeResults :
          /\ probe # "open_failed" => dev_exists
          /\ cap' = get_device_size(probe, device)
          /\ target_ops' = target_ops \cup {"probe"} \cup
                (IF probe = "open_failed" THEN {} ELSE {"open_r"})
          /\ IF cap'[1] = "Ok" /\ ExceedsCapacity(Len(source), cap'[2])
             THEN Finish("InsufficientSpace")
             ELSE /\ pc' = "open"
                  /\ outcome' = outcome
    /\ UNCHANGED <<env_vars, device, dev_exists, copy_vars, verify_vars>>

\* io::ErrorKind of a failed open of the device
OpenErrorKinds == {"PermissionDenied", "NotFound", "Other"}

\* io::ErrorKind of a failed write to the device (write(2) has no ENOENT)
WriteErrorKinds == {"PermissionDenied", "Other"}

\* writer.rs:100-104, classification of the error of opening the device
ClassifyOpenError(kind) ==
    CASE kind = "PermissionDenied" -> "PermissionDenied"
      [] kind = "NotFound" -> "DeviceNotFound"
      [] OTHER -> "IoError"

\* writer.rs:148-151, the error of write_all: every kind becomes IoError
ClassifyWriteError(kind) == "IoError"

\* the kind of the error the open of the device met, as kept in target_ops
OpenFailedWith(kind) ==
    CASE kind = "PermissionDenied" -> "open_PermissionDenied"
      [] kind = "NotFound" -> "open_NotFound"
      [] OTHER -> "open_Other"

\* the kind of the error a write to the device met, as kept in target_ops
WriteFailedWith(kind) ==
    CASE kind = "PermissionDenied" -> "write_PermissionDenied"
      [] OTHER -> "write_Other"

\* ------------------------------------------------- writer.rs:85-112, 133-136
\* write_iso_with_progress_sync up to the call of copy_with_progress, and
\* the initialisation of the loop
open_files ==
    /\ pc = "open"
    /\ \/ \* File::open(iso_path) fails
          /\ Finish("IoError")
          /\ UNCHANGED <<target_ops, copy_vars>>
       \/ \* OpenOptions::open(device_path) fails
          \E kind \in OpenErrorKinds :
          /\ (kind = "NotFound") <=> ~dev_exists
          /\ Finish(ClassifyOpenError(kind))
          /\ target_ops' = target_ops \cup {OpenFailedWith(kind)}
          /\ UNCHANGED copy_vars
       \/ \* iso_file.metadata() fails, the device handle is open
          /\ dev_exists
          /\ Finish("IoError")
          /\ target_ops' = target_ops \cup {"open_w"}
          /\ UNCHANGED copy_vars
       \/ /\ dev_exists
          /\ pc' = "copy"
          /\ outcome' = outcome
          /\ target_ops' = target_ops \cup {"open_w"}
          /\ total_size' = Len(source)
          /\ rpos' = 0
          /\ bytes_written' = 0
          /\ now' = 0
          /\ last_progress_time' = 0
          /\ UNCHANGED <<written, samples, copy_result>>
    /\ UNCHANGED <<env_vars, device, dev_exists, cap, verify_vars>>

\* mutant: the error of the writer is dropped and the session goes on
WriterFails_ignored(e) ==
    /\ pc' = "written"
    /\ outcome' = outcome
    /\ copy_result' = "err"

\* mutant: the loop goes on after the error
WriterFails_continue(e) ==
    /\ pc' = pc
    /\ outcome' = outcome
    /\ copy_result' = copy_result

\* writer.rs:140, 151, 178 (map_err ... ?), 115 (?), 302 (?), main.rs:268
\* (?): copy_with_progress returns Err(e), which every caller passes on
WriterFails(e) ==
    /\ Finish(e)
    /\ copy_result' = "err"

\* the samples after one successful chunk, writer.rs:154-174
EmitThrottled(s, bw, total, t, last) ==
    IF ThrottleElapsed(t, last)
    THEN Append(s, ThrottledSample(bw, total, t))
    ELSE s

\* ------------------------------------------------- writer.rs:138-175
\* one iteration of the copy loop
copy_loop_iteration ==
    /\ pc = "copy"
    /\ \/ \* reader.read fails
          /\ WriterFails("IoError")
          /\ UNCHANGED <<device, rpos, bytes_written, written, now,
                         last_progress_time, samples, target_ops>>
       \/ \* bytes_read == 0
          /\ rpos = Len(source)
          /\ pc' = "flush"
          /\ UNCHANGED <<outcome, device, rpos, bytes_written, written, now,
                         last_progress_time, samples, copy_result,
                         target_ops>>
       \/ \* a chunk is read and written
          \E n \in 1..Min(buffer_size, Len(source) - rpos), dt \in ChunkDelays :
          LET chunk == ChunkRead(source, rpos, n)
              room == Len(device) - Len(written)
          IN  /\ n <= room
              /\ rpos' = rpos + n
              /\ device' = Store(device, Len(written), chunk)
              /\ written' = written \o chunk
              /\ bytes_written' = Accumulate(bytes_written, n)
              /\ now' = now + dt
              /\ samples' = EmitThrottled(samples, bytes_written', total_size,
                                          now', last_progress_time)
              /\ last_progress_time' =
                    IF ThrottleElapsed(now', last_progress_time)
                    THEN now' ELSE last_progress_time
              /\ UNCHANGED <<pc, outcome, copy_result, target_ops>>
       \/ \* a chunk is read, write_all fails: what fits (nothing, when the
          \* device itself failed or refused) is stored first
          \E n \in 1..Min(buffer_size, Len(source) - rpos),
             kind \in WriteErrorKinds :
          LET chunk == ChunkRead(source, rpos, n)
              room == Len(device) - Len(written)
          IN  \E k \in {0} \cup (IF room < n /\ kind = "Other"
                                 THEN {room} ELSE {}) :
              /\ rpos' = rpos + n
              /\ device' = Store(device, Len(written), SubSeq(chunk, 1, k))
              /\ written' = written \o SubSeq(chunk, 1, k)
              /\ WriterFails(ClassifyWriteError(kind))
              /\ target_ops' = target_ops \cup
                                  {"write_failed", WriteFailedWith(kind)}
              /\ UNCHANGED <<bytes_written, now, last_progress_time, samples>>
    /\ UNCHANGED <<env_vars, dev_exists, cap, total_size, verify_vars>>

\* ------------------------------------------------- writer.rs:177-199
copy_finish ==
    /\ pc = "flush"
    /\ \/ \* writer.flush fails
          /\ WriterFails("IoError")
          /\ target_ops' = target_ops \cup {"flush_failed"}
          /\ UNCHANGED samples
       \/ \* the flush, then the final sample
          /\ target_ops' = target_ops \cup {"flush"}
          /\ samples' = Append(samples,
                               FinalSample(bytes_written, total_size, now))
          /\ copy_result' = "ok"
          /\ pc' = "written"
          /\ outcome' = outcome
    /\ UNCHANGED <<env_vars, device, dev_exists, cap, total_size, rpos,
                   bytes_written, written, now, last_progress_time,
                   verify_vars>>

\* ------------------------------------------------- writer.rs:302-307
\* write_iso returned Ok, verify_write is spawned
start_verification ==
    /\ pc = "written"
    /\ pc' = "verify"
    /\ vpc' = [vpc EXCEPT ![1] = "open"]
    /\ UNCHANGED <<env_vars, device, dev_exists, outcome, cap, copy_vars,
                   target_ops, vpos, vres>>

\* the byte at offset i (1-based) replaced by the other byte
Flip(dev, i) == [dev EXCEPT ![i] = 1 - dev[i]]

\* environment: a byte of the device changes between the copy and the
\* verification (failing medium, another writer)
Tamper ==
    /\ pc = "written"
    /\ \E i \in 1..Len(device) : device' = Flip(device, i)
    /\ UNCHANGED <<env_vars, dev_exists, pc, outcome, cap, copy_vars,
                   target_ops, verify_vars>>

\* environment: the device is removed after validation, before the writer
\* opens it
Unplug ==
    /\ pc \in {"iso_exists", "dev_exists", "size_check", "open"}
    /\ dev_exists
    /\ dev_exists' = FALSE
    /\ UNCHANGED <<env_vars, device, pc, outcome, cap, copy_vars, target_ops,
                   verify_vars>>

\* ------------------------------------------------- writer.rs:212-228
verify_open(r) ==
    /\ vpc[r] = "open"
    /\ \/ \* File::open(iso_path) fails
          /\ vres' = [vres EXCEPT ![r] = "io_error"]
          /\ vpc' = [vpc EXCEPT ![r] = "done"]
          /\ UNCHANGED <<vpos, target_ops>>
       \/ \* File::open(device_path) fails
          /\ vres' = [vres EXCEPT ![r] = "io_error"]
          /\ vpc' = [vpc EXCEPT ![r] = "done"]
          /\ UNCHANGED <<vpos, target_ops>>
       \/ \* both handles are open, at offset 0
          /\ dev_exists
          /\ vpc' = [vpc EXCEPT ![r] = "loop"]
          /\ vpos' = [vpos EXCEPT ![r] = 0]
          /\ target_ops' = target_ops \cup {"open_r"}
          /\ UNCHANGED vres
    /\ UNCHANGED <<env_vars, device, dev_exists, pc, outcome, cap, copy_vars>>

\* the sizes a read of at most buf bytes at offset pos of a file of len
\* bytes may return: 0 at the end of the file only
ReadSizes(len, pos, buf) ==
    IF pos >= len THEN {0} ELSE 1..Min(buf, len - pos)

\* writer.rs:236-248, the result of one comparison step, "continue" when
\* the loop goes on
CompareStep(iso_buf, dev_buf) ==
    IF Len(iso_buf) = 0 THEN "true"
    ELSE IF Len(iso_buf) # Len(dev_buf) THEN "false"
    ELSE IF SlicesDiffer(iso_buf, dev_buf) THEN "false"
    ELSE "continue"

\* ------------------------------------------------- writer.rs:230-258
\* one iteration of the verification loop
verify_step(r) ==
    /\ vpc[r] = "loop"
    /\ \/ \* a read fails
          /\ vres' = [vres EXCEPT ![r] = "io_error"]
          /\ vpc' = [vpc EXCEPT ![r] = "done"]
          /\ UNCHANGED vpos
       \/ \E iso_bytes \in ReadSizes(Len(source), vpos[r], VerifyBufSize),
             device_bytes \in ReadSizes(Len(device), vpos[r], VerifyBufSize) :
          LET iso_buf == SubSeq(source, vpos[r] + 1, vpos[r] + iso_bytes)
              dev_buf == SubSeq(device, vpos[r] + 1, vpos[r] + device_bytes)
              step == CompareStep(iso_buf, dev_buf)
          IN  IF step = "continue"
              THEN /\ vpos' = [vpos EXCEPT ![r] = vpos[r] + iso_bytes]
                   /\ UNCHANGED <<vpc, vres>>
              ELSE /\ vres' = [vres EXCEPT ![r] = step]
                   /\ vpc' = [vpc EXCEPT ![r] = "done"]
                   /\ UNCHANGED vpos
    /\ UNCHANGED <<env_vars, device, dev_exists, pc, outcome, cap, copy_vars,
                   target_ops>>

\* ------------------------------------------------- writer.rs:307-313,
\* main.rs:268-270: the session result after verify_write returned
finish_session ==
    /\ pc = "verify"
    /\ vpc[1] = "done"
    /\ Finish(VerifyOutcome(vres[1]))
    /\ UNCHANGED <<env_vars, device, dev_exists, cap, copy_vars, target_ops,
                   verify_vars>>

Next ==
    \/ validate_device_for_writing
    \/ check_iso_exists
    \/ check_device_exists
    \/ check_device_size
    \/ open_files
    \/ copy_loop_iteration
    \/ copy_finish
    \/ start_verification
    \/ \E r \in Runs : verify_open(r)
    \/ \E r \in Runs : verify_step(r)
    \/ finish_session
    \/ Tamper
    \/ Unplug

Spec == Init /\ [][Next]_vars

\* The sessions whose progress is checked: every source length, device size
\* and buffer size of Init, with a mount table that is empty or holds a
\* partition of the target (the two results of is_device_mounted).  Source
\* and device start as zeros: which step follows depends on the bytes only
\* through the comparison of the verifier, and Tamper changes the bytes of
\* the device before the verification.
InitFair ==
    /\ Init
    /\ mounts \in {{}, {device_path \o <<1>>}}
    /\ \A i \in 1..Len(source) : source[i] = 0
    /\ \A i \in 1..Len(device) : device[i] = 0

\* the steps of the program, without those of the environment
SessionNext ==
    \/ validate_device_for_writing
    \/ check_iso_exists
    \/ check_device_exists
    \/ check_device_size
    \/ open_files
    \/ copy_loop_iteration
    \/ copy_finish
    \/ start_verification
    \/ \E r \in Runs : verify_open(r)
    \/ \E r \in Runs : verify_step(r)
    \/ finish_session

\* the executor runs the future of write_iso_to_usb to completion
\* (main.rs:118-121, Command::perform) and every blocking call returns
FairSpec == InitFair /\ [][Next]_vars /\ WF_vars(SessionNext)

\* ---------------------------------------------------------------------
\* The session in an environment where the mount table changes while the
\* session runs.  validate_device_for_writing reads /proc/mounts once
\* (device.rs:152); nothing reads it again.

\* environment: a partition of the target is mounted (automounter, user)
\* after the validation, before or during the copy
Mount ==
    /\ pc \in {"open", "copy"}
    /\ ~is_device_mounted(device_path, mounts)
    /\ mounts' = mounts \cup {device_path \o <<1>>}
    /\ UNCHANGED <<source, src_exists, buffer_size, device, dev_exists, pc,
                   outcome, cap, copy_vars, target_ops, verify_vars,
                   cancel_request, app_vars>>

NextMount ==
    \/ Next
    \/ Mount

SpecMount == Init /\ [][NextMount]_vars

\* ---------------------------------------------------------------------
\* The session while somebody asks for it to be cancelled.  The request is
\* recorded with the loop it arrived in and that loop's progress; no code
\* reads it (WriterError::Cancelled is never constructed).

\* environment: a cancellation request while a loop is running
RequestCancel ==
    /\ cancel_request = <<>>
    /\ \/ /\ pc = "copy"
          /\ cancel_request' = <<"copy", bytes_written>>
       \/ /\ pc = "verify"
          /\ vpc[1] = "loop"
          /\ cancel_request' = <<"verify", vpos[1]>>
    /\ UNCHANGED <<source, src_exists, mounts, buffer_size, device, dev_exists,
                   pc, outcome, cap, copy_vars, target_ops, verify_vars,
                   app_vars>>

NextCancel ==
    \/ Next
    \/ RequestCancel

SpecCancel == Init /\ [][NextCancel]_vars

\* ---------------------------------------------------------------------
\* The application: SchrijverApplication under the iced runtime.  The
\* runtime queues the messages of widgets and of finished futures, calls
\* update for each, and renders the view again when the queue is drained.
\* A session is a future of write_iso_to_usb; its steps are the ones of
\* Spec, here reduced to the future returning.

MaxMsgs == 2
MaxCommands == 2
IsoPaths == {"a.iso"}
DevicePaths == {<<1>>, <<2>>}
DetectResults == {{}, DevicePaths}
CopyFailures == {"IoError"}
VerifyResults == {"Ok", "VerificationFailed"}

Msg(type, arg) == [type |-> type, arg |-> arg]

\* main.rs update: the new fields and the Command returned
Update(a, m) ==
    CASE m.type = "SelectIsoFile" ->
           [app |-> a,
            command |-> <<Future("select_iso_file", "none", <<>>)>>]
      [] m.type = "IsoFileSelected" ->
           [app |-> [a EXCEPT !.iso_path = m.arg],
            command |-> <<>>]
      [] m.type = "RefreshDevices" ->
           [app |-> a,
            command |-> <<Future("detect_usb_devices", "none", <<>>)>>]
      [] m.type = "DevicesDetected" ->
           [app |-> [a EXCEPT !.available_devices = m.arg],
            command |-> <<>>]
      [] m.type = "DeviceSelected" ->
           [app |-> [a EXCEPT !.selected_device = m.arg],
            command |-> <<>>]
      [] m.type = "StartWriting" ->
           IF a.iso_path # "none" /\ a.selected_device # <<>>
           THEN [app |-> [a EXCEPT !.is_writing = TRUE,
                                   !.write_progress = 0],
                 command |-> <<Future("write_iso_to_usb", a.iso_path,
                                      a.selected_device)>>]
           ELSE [app |-> a, command |-> <<>>]
      [] m.type = "WriteProgress" ->
           [app |-> [a EXCEPT !.write_progress = m.arg],
            command |-> <<>>]
      [] OTHER -> \* WriteCompleted
           [app |-> [a EXCEPT !.is_writing = FALSE,
                              !.write_progress =
                                  IF m.arg = "Ok" THEN FULL_PERCENT ELSE 0],
            command |-> <<>>]

\* writer.rs:72, the callback write_iso_sync hands to the copy: |_| {}
progress_callback(queue, sample) == queue

\* the list without its i-th element
Remove(seq, i) == SubSeq(seq, 1, i - 1) \o SubSeq(seq, i + 1, Len(seq))

session_vars == <<source, src_exists, device, dev_exists, mounts, buffer_size,
                  pc, outcome, cap, copy_vars, target_ops, verify_vars,
                  cancel_request>>

InitApp ==
    /\ source = <<>>
    /\ src_exists = TRUE
    /\ device = <<>>
    /\ dev_exists = TRUE
    /\ mounts = {}
    /\ buffer_size = 1
    /\ pc = "application"
    /\ outcome = "none"
    /\ cap = <<"unprobed">>
    /\ total_size = 0
    /\ rpos = 0
    /\ bytes_written = 0
    /\ written = <<>>
    /\ now = 0
    /\ last_progress_time = 0
    /\ samples = <<>>
    /\ copy_result = "none"
    /\ target_ops = {}
    /\ vpc = [r \in Runs |-> "idle"]
    /\ vpos = [r \in Runs |-> 0]
    /\ vres = [r \in Runs |-> "none"]
    /\ cancel_request = <<>>
    /\ InitApplication

\* a message of a widget joins the queue
Enqueue(m) ==
    /\ Len(msgs) < MaxMsgs
    /\ msgs' = Append(msgs, m)
    /\ UNCHANGED <<session_vars, app, view, commands>>

\* main.rs view: button("Select ISO")
press_select_iso ==
    /\ view.current
    /\ Enqueue(Msg("SelectIsoFile", <<>>))

\* main.rs view: button("Refresh")
press_refresh ==
    /\ view.current
    /\ Enqueue(Msg("RefreshDevices", <<>>))

\* main.rs view: pick_list over available_devices
pick_device ==
    /\ view.current
    /\ \E d \in view.devices : Enqueue(Msg("DeviceSelected", d))

\* main.rs view: the button carries on_press only if can_write()
press_write ==
    /\ view.current
    /\ view.can_write
    /\ Enqueue(Msg("StartWriting", <<>>))

\* mutant: the running sessions read the paths from the fields of the
\* application, not from their own copies
update_shared_paths ==
    /\ msgs # <<>>
    /\ LET r == Update(app, Head(msgs))
           all == commands \o r.command
       IN
         /\ Len(commands) + Len(r.command) <= MaxCommands
         /\ app' = r.app
         /\ commands' =
               [i \in 1..Len(all) |->
                   IF all[i].kind = "write_iso_to_usb"
                   THEN Future("write_iso_to_usb", r.app.iso_path,
                               r.app.selected_device)
                   ELSE all[i]]
    /\ msgs' = Tail(msgs)
    /\ view' = [view EXCEPT !.current = FALSE]
    /\ UNCHANGED session_vars

\* the runtime hands the oldest message to update and spawns the Command
update ==
    /\ msgs # <<>>
    /\ LET r == Update(app, Head(msgs)) IN
         /\ Len(commands) + Len(r.command) <= MaxCommands
         /\ app' = r.app
         /\ commands' = commands \o r.command
    /\ msgs' = Tail(msgs)
    /\ view' = [view EXCEPT !.current = FALSE]
    /\ UNCHANGED session_vars

\* the runtime renders the view once the queue is drained
render ==
    /\ msgs = <<>>
    /\ ~view.current
    /\ view' = Render(app)
    /\ UNCHANGED <<session_vars, app, msgs, commands>>

\* a future returns; Command::perform turns its value into a message
Complete(i, m) ==
    /\ Len(msgs) < MaxMsgs
    /\ msgs' = Append(msgs, m)
    /\ commands' = Remove(commands, i)
    /\ UNCHANGED <<session_vars, app, view>>

select_iso_file ==
    \E i \in 1..Len(commands) :
        /\ commands[i].kind = "select_iso_file"
        /\ \E path \in IsoPaths \cup {"none"} :
               Complete(i, Msg("IsoFileSelected", path))

detect_usb_devices ==
    \E i \in 1..Len(commands) :
        /\ commands[i].kind = "detect_usb_devices"
        /\ \E devices \in DetectResults :
               Complete(i, Msg("DevicesDetected", devices))

\* write_iso_to_usb returns.  Either a step up to the copy failed, or the
\* copy ended well, its final sample went to the callback, and the
\* verification gave the result.
write_iso_to_usb ==
    \E i \in 1..Len(commands) :
        /\ commands[i].kind = "write_iso_to_usb"
        /\ \/ \E e \in CopyFailures :
                 /\ Len(msgs) < MaxMsgs
                 /\ msgs' = Append(msgs, Msg("WriteCompleted", e))
           \/ \E res \in VerifyResults :
                 /\ Len(msgs) < MaxMsgs
                 /\ msgs' = Append(progress_callback(msgs, FULL_PERCENT),
                                   Msg("WriteCompleted", res))
        /\ commands' = Remove(commands, i)
        /\ UNCHANGED <<session_vars, app, view>>

NextApp ==
    \/ press_select_iso
    \/ press_refresh
    \/ pick_device
    \/ press_write
    \/ update
    \/ render
    \/ select_iso_file
    \/ detect_usb_devices
    \/ write_iso_to_usb

SpecApp == InitApp /\ [][NextApp]_vars

\* ---------------------------------------------------------------------
\* copy_with_progress on a source whose size changed after line 108 read it:
\* total_size is iso_file.metadata().len() at that moment, source is what
\* the reads of the loop find.  The state is the one open_files leaves, with
\* any total_size.
InitCopy ==
    /\ source \in SeqsUpTo(MaxLen)
    /\ src_exists = TRUE
    /\ \E d \in 0..MaxDev : device = [i \in 1..d |-> 0]
    /\ dev_exists = TRUE
    /\ mounts = {}
    /\ buffer_size \in 1..MaxBuf
    /\ pc = "copy"
    /\ outcome = "none"
    /\ cap = <<"unprobed">>
    /\ total_size \in 0..MaxLen
    /\ rpos = 0
    /\ bytes_written = 0
    /\ written = <<>>
    /\ now = 0
    /\ last_progress_time = 0
    /\ samples = <<>>
    /\ copy_result = "none"
    /\ target_ops = {"open_w"}
    /\ vpc = [r \in Runs |-> "idle"]
    /\ vpos = [r \in Runs |-> 0]
    /\ vres = [r \in Runs |-> "none"]
    /\ cancel_request = <<>>
    /\ InitApplication

NextCopy ==
    \/ copy_loop_iteration
    \/ copy_finish

SpecCopy == InitCopy /\ [][NextCopy]_vars

\* ---------------------------------------------------------------------
\* verify_write_sync called on its own (UsbWriter::verify_write is public):
\* any source, any device content, two runs on the same files
InitVerify ==
    /\ source \in SeqsUpTo(MaxLen)
    /\ src_exists = TRUE
    /\ device \in SeqsUpTo(MaxDev)
    /\ dev_exists = TRUE
    /\ mounts = {}
    /\ buffer_size = 1
    /\ pc = "library"
    /\ outcome = "none"
    /\ cap = <<"unprobed">>
    /\ total_size = 0
    /\ rpos = 0
    /\ bytes_written = 0
    /\ written = <<>>
    /\ now = 0
    /\ last_progress_time = 0
    /\ samples = <<>>
    /\ copy_result = "none"
    /\ target_ops = {}
    /\ vpc = [r \in Runs |-> "open"]
    /\ vpos = [r \in Runs |-> 0]
    /\ vres = [r \in Runs |-> "none"]
    /\ cancel_request = <<>>
    /\ InitApplication

NextVerify ==
    \/ \E r \in Runs : verify_open(r)
    \/ \E r \in Runs : verify_step(r)

SpecVerify == InitVerify /\ [][NextVerify]_vars

\* =====================================================================
\* Properties
\* =====================================================================

LastSample == samples[Len(samples)]

\* C1: when copy_with_progress returns success, bytes_written, which is
\* the value the last progress sample carries, equals the source length,
\* for every buffer size, dividing the length or not.
C1_FinalBytesWritten ==
    copy_result = "ok" =>
        /\ bytes_written = Len(source)
        /\ Len(samples) >= 1
        /\ LastSample.bytes_written = Len(source)

\* a successful copy of a source whose length the buffer does not divide
C1_Witness ==
    /\ copy_result = "ok"
    /\ Len(source) = 3
    /\ buffer_size = 2
    /\ LastSample.bytes_written = 3

\* C2: when copy_with_progress returns success, the bytes the destination
\* received, in order from offset 0, are exactly the bytes of the source;
\* while the copy runs the device holds them at offsets 0..Len(written)-1.
C2_DestinationEqualsSource ==
    /\ copy_result = "ok" => written = source
    /\ pc \in {"copy", "flush"} =>
          /\ Len(written) <= Len(device)
          /\ SubSeq(device, 1, Len(written)) = written

\* a successful copy of several chunks, and one with a buffer larger than
\* the source
C2_Witness ==
    /\ copy_result = "ok"
    /\ written = source
    /\ Len(source) = 3
    /\ source[1] # source[2]
    /\ buffer_size = 2

\* the first Len(source) bytes of the device are the source
DeviceHoldsSource ==
    /\ Len(device) >= Len(source)
    /\ SubSeq(device, 1, Len(source)) = source

\* C3: a successful write followed by a verification of the unchanged
\* source and destination returns true.
C3_RoundTrip ==
    (/\ copy_result = "ok"
     /\ DeviceHoldsSource
     /\ vpc[1] = "done"
     /\ vres[1] # "io_error") => vres[1] = "true"

\* offsets (1-based) below the source length where the device differs
DiffOffsets == {i \in 1..Len(source) : device[i] # source[i]}

\* exactly one byte of the compared range differs
OneByteDiffers ==
    /\ Len(device) >= Len(source)
    /\ Cardinality(DiffOffsets) = 1

\* C4: when exactly one byte of the destination within the compared range
\* differs from the source, a verification that completes its reads
\* returns false, whatever the offset and the source length.
C4_SingleByteDetected ==
    \A r \in Runs :
        (OneByteDiffers /\ vpc[r] = "done" /\ vres[r] # "io_error")
            => vres[r] = "false"

\* the differing byte is the last one of the longest source
C4_Witness ==
    /\ OneByteDiffers
    /\ Len(source) = MaxLen
    /\ DiffOffsets = {MaxLen}
    /\ vpc[1] = "done"
    /\ vres[1] = "false"

\* C5: two runs of the verification on the same unchanged source and
\* destination return the same result.
C5_Deterministic ==
    (/\ vpc[1] = "done" /\ vres[1] # "io_error"
     /\ vpc[2] = "done" /\ vres[2] # "io_error") => vres[1] = vres[2]

\* positions of the samples that carry 100.0
FullSamples == {i \in 1..Len(samples) : samples[i].progress_percent = FULL_PERCENT}

\* C6: in a successful copy exactly one sample carries 100.0 and it is the
\* last one.
C6_FullPercentOnce ==
    copy_result = "ok" => FullSamples = {Len(samples)}

CapacityExceeded == cap[1] = "Ok" /\ Len(source) > cap[2]

TargetMounted ==
    \E m \in mounts :
        /\ Len(m) >= Len(device_path)
        /\ \A i \in 1..Len(device_path) : m[i] = device_path[i]

C9_SourceCheckedFirst ==
    (pc = "done" /\ ~src_exists) =>
        /\ outcome = "IsoNotFound"
        /\ target_ops = {}

\* C10: when the copy succeeded and the verification returned false the
\* session ends with VerificationFailed, and from the start of the
\* verification on no step changes the device or writes to it.
C10_VerificationFailed ==
    /\ [](pc = "done" /\ copy_result = "ok" /\ vres[1] = "false"
             => outcome = "VerificationFailed")
    /\ [][pc = "verify" => (device' = device /\ written' = written)]_vars

C10_Witness ==
    /\ pc = "done"
    /\ copy_result = "ok"
    /\ vres[1] = "false"
    /\ outcome = "VerificationFailed"
    /\ written = source

\* C11: the verification starts only after the writer returned success;
\* when the copy ended with an error the session has ended with that error
\* and the verification never opened or read anything.
C11_VerifyOnlyAfterCopySuccess ==
    /\ vpc[1] # "idle" => copy_result = "ok"
    /\ copy_result = "err" =>
          /\ pc = "done"
          /\ outcome = "IoError"
          /\ vpc[1] = "idle"
          /\ vpos[1] = 0
          /\ vres[1] = "none"

\* the copy failed after a part of the image had been written
C11_Witness ==
    /\ copy_result = "err"
    /\ pc = "done"
    /\ outcome = "IoError"
    /\ Len(written) >= 1
    /\ vpc[1] = "idle"

\* C15: a destination longer than the source whose first bytes are the
\* source verifies, whatever the source length.
C15_LargerDestinationVerifies ==
    \A r \in Runs :
        (/\ Len(device) > Len(source)
         /\ SubSeq(device, 1, Len(source)) = source
         /\ vpc[r] = "done"
         /\ vres[r] # "io_error") => vres[r] = "true"

\* C18: a successful return of the writer was preceded by the flush; when
\* the flush fails the writer returns an I/O failure and no sample carrying
\* 100.0 was emitted.
C18_FlushBeforeFullPercent ==
    /\ copy_result = "ok" => "flush" \in target_ops
    /\ "flush_failed" \in target_ops =>
          /\ pc = "done"
          /\ outcome = "IoError"
          /\ FullSamples = {}

WriteFailed == "write_failed" \in target_ops

\* C19: when a chunk write fails the writer returns an error at once:
\* bytes_written is not advanced for the chunk, no sample follows (none
\* carries 100.0), the verification does not start, and no later step reads,
\* writes or emits.
C19_WriteFailureAborts ==
    /\ [](WriteFailed =>
             /\ pc = "done"
             /\ outcome = "IoError"
             /\ copy_result = "err"
             /\ bytes_written < rpos
             /\ \A i \in 1..Len(samples) :
                   /\ samples[i].bytes_written <= bytes_written
                   /\ samples[i].progress_percent # FULL_PERCENT
             /\ vpc[1] = "idle")
    /\ [][WriteFailed =>
             UNCHANGED <<rpos, bytes_written, written, device, samples>>]_vars

\* a later chunk failed, after a sample had been emitted
C19_Witness ==
    /\ WriteFailed
    /\ pc = "done"
    /\ bytes_written >= 1
    /\ Len(samples) >= 1

\* the sample at position i is not the final one
NonFinal(i) == i < Len(samples) \/ copy_result # "ok"

\* C20: a non-final sample is at least 100 ms after the previous sample,
\* or after the start when it is the first.
C20_Throttled ==
    \A i \in 1..Len(samples) :
        NonFinal(i) =>
            samples[i].elapsed_ms
              - (IF i = 1 THEN 0 ELSE samples[i - 1].elapsed_ms) >= THROTTLE_MS

\* two throttled samples in a row, and an iteration that ended exactly
\* 100 ms after the last sample and emitted nothing
C20_Witness ==
    /\ Len(samples) >= 2
    /\ NonFinal(2)
    /\ now - last_progress_time = THROTTLE_MS

\* C13: every session ends with exactly one outcome: it reaches its end,
\* the outcome is set exactly there, and after it no step of the session
\* happens (no read, write, sample or second outcome).
C13_ExactlyOneOutcome ==
    /\ <>(pc = "done")
    /\ [](pc = "done" <=> outcome # "none")
    /\ [][pc = "done" => UNCHANGED vars]_vars

\* a session that went through copy and verification and ended
C13_Witness ==
    /\ pc = "done"
    /\ outcome = "Ok"
    /\ Len(samples) >= 2
    /\ vpos[1] >= 1

\* C14: no step writes to the target while the target or one of its
\* partitions is mounted, also when the mount appears after the validation.
C14_NoWriteWhileMounted ==
    [][written' # written => ~TargetMounted]_vars

\* C17: a cancellation request raised while the copy loop or the compare
\* loop runs is honoured at the next chunk boundary: the session does not end
\* in success, and at most one further chunk (buffer_size bytes of the copy,
\* VerifyBufSize bytes of the comparison) is transferred after the request
C17_CancelHonoured ==
    (pc = "done" /\ cancel_request # <<>>) =>
        /\ outcome # "Ok"
        /\ cancel_request[1] = "copy" =>
               /\ bytes_written <= cancel_request[2] + buffer_size
               /\ vpc[1] = "idle"
        /\ cancel_request[1] = "verify" =>
               vpos[1] <= cancel_request[2] + VerifyBufSize

\* the sessions running on device path d
ActiveSessions(d) ==
    {i \in 1..Len(commands) :
        commands[i].kind = "write_iso_to_usb" /\ commands[i].dev = d}

\* C12: at any time at most one session is active on a device path
C12_OneSessionPerDevice ==
    \A d \in DevicePaths : Cardinality(ActiveSessions(d)) <= 1

\* C16: when the terminal outcome of a session whose copy succeeded reaches
\* update, the final 100% sample has been delivered: write_progress is full
C16_FinalSampleDelivered ==
    (/\ msgs # <<>>
     /\ Head(msgs).type = "WriteCompleted"
     /\ Head(msgs).arg \in {"Ok", "VerificationFailed"})
        => app.write_progress = FULL_PERCENT

\* C21: in every progress sample bytes_written is at most total_bytes,
\* bytes_written does not decrease from one sample to the next, and
\* total_bytes is the same in all samples, whatever total_size the loop was
\* given and however many bytes the source yields.
C21_SamplesBounded ==
    \A i \in 1..Len(samples) :
        /\ samples[i].bytes_written <= samples[i].total_bytes
        /\ samples[i].total_bytes = samples[1].total_bytes
        /\ i > 1 => samples[i - 1].bytes_written <= samples[i].bytes_written

\* the outcome the claim assigns to an error kind
ClassOf(kind) ==
    CASE kind = "PermissionDenied" -> "PermissionDenied"
      [] kind = "NotFound" -> "DeviceNotFound"
      [] OTHER -> "IoError"

\* C22: a failure to open or to write the destination ends the session with
\* the class of the underlying error: PermissionDenied for a permission
\* error, DeviceNotFound for not-found, IoError for anything else, for
\* errors of a write as for errors of the open.
C22_FailureClassified ==
    /\ \A kind \in OpenErrorKinds :
          OpenFailedWith(kind) \in target_ops =>
              pc = "done" /\ outcome = ClassOf(kind)
    /\ \A kind \in WriteErrorKinds :
          WriteFailedWith(kind) \in target_ops =>
              pc = "done" /\ outcome = ClassOf(kind)

\* the session is inside write_iso_with_progress_sync
InWriter == pc \in {"open", "copy", "flush"}

\* C23: the writer never creates or truncates the destination.  When its
\* open finds no destination the session ends with DeviceNotFound, nothing
\* was written and the path still does not exist; no step of the writer
\* makes the path exist, changes the length of the destination, or changes
\* a byte at an offset at or behind the source length.
C23_NoCreateNoTruncate ==
    /\ []("open_NotFound" \in target_ops =>
             /\ pc = "done"
             /\ outcome = "DeviceNotFound"
             /\ ~dev_exists
             /\ written = <<>>)
    /\ [][InWriter =>
             /\ dev_exists' => dev_exists
             /\ Len(device') = Len(device)
             /\ \A i \in (Len(source) + 1)..Len(device) :
                   device'[i] = device[i]]_vars

\* a successful write to a destination longer than the source, whose last
\* byte still differs from what a truncation would leave
C23_Witness ==
    /\ copy_result = "ok"
    /\ pc = "written"
    /\ Len(source) >= 1
    /\ Len(device) > Len(source)
    /\ SubSeq(device, 1, Len(source)) = source
    /\ \A i \in (Len(source) + 1)..Len(device) : device[i] = 1

CapacityUnknown == cap = <<"Err">>

TargetTooSmall == Len(device) < Len(source)

\* C25: when the capacity probe fails the capacity check is skipped and the
\* session goes on to the writer, and never ends with InsufficientSpace;
\* when the target is then smaller than the source the copy does not
\* succeed, the session does not end in success, and once the copy has
\* started it ends with the IoError the copy raised.
C25_UnknownCapacity ==
    /\ [](CapacityUnknown => outcome # "InsufficientSpace")
    /\ []((CapacityUnknown /\ TargetTooSmall) =>
             /\ copy_result # "ok"
             /\ outcome \notin {"Ok", "VerificationFailed"}
             /\ (pc = "done" /\ total_size > 0) =>
                   (outcome = "IoError" /\ copy_result = "err"))
    /\ [][(pc = "size_check" /\ cap' = <<"Err">>) => pc' = "open"]_vars

\* the probe failed, the target is smaller than the source, and the copy
\* failed at the end of the target after filling it
C25_Witness ==
    /\ CapacityUnknown
    /\ TargetTooSmall
    /\ pc = "done"
    /\ outcome = "IoError"
    /\ "write_failed" \in target_ops
    /\ Len(device) >= 1
    /\ Len(written) = Len(device)

IsSession(c) == c.kind = "write_iso_to_usb"

\* the running sessions, each with the source path and the device path it
\* works on, in the order they were started
Sessions == SelectSeq(commands, IsSession)

SelectionMessages ==
    {"IsoFileSelected", "DeviceSelected", "RefreshDevices", "DevicesDetected"}

\* C26: when update handles IsoFileSelected, DeviceSelected, RefreshDevices
\* or DevicesDetected, every running session keeps the source path and the
\* device path it was started with.
C26_SessionBound ==
    [][(/\ msgs # <<>>
        /\ Len(msgs') = Len(msgs) - 1
        /\ Head(msgs).type \in SelectionMessages)
           => Sessions' = Sessions]_vars

\* a session is running on the paths it was started with while the
\* application has since had another device selected and the ISO unset
C26_Witness ==
    \E i \in 1..Len(commands) :
        /\ IsSession(commands[i])
        /\ commands[i].iso = "a.iso"
        /\ commands[i].dev = <<1>>
        /\ app.iso_path = "none"
        /\ app.selected_device = <<2>>
        /\ app.is_writing

====
